---- MODULE Spec2Model ----
(***************************************************************************)
(* Model of olmocr/bench/review_app.py: the review session of the OCR      *)
(* benchmark review tool.  The module globals PDF_TESTS, ALL_PDFS and      *)
(* CURRENT_PDF, the record file table_tests.jsonl, and the request         *)
(* handlers index, update_test, next_pdf, prev_pdf and goto_pdf.           *)
(*                                                                         *)
(* A test record is a function from field names to values (a Python dict). *)
(* A field that is absent is not in the record's DOMAIN; None is the value *)
(* of Python's None and of JSON null.                                      *)
(***************************************************************************)
EXTENDS Naturals, Integers, Sequences, FiniteSets, TLC

VARIABLES
    file,         \* lines of <DATASET_DIR>/table_tests.jsonl
    PDF_TESTS,    \* the global dict, as its items in insertion order
    ALL_PDFS,     \* the global list of document names
    CURRENT_PDF,  \* the global cursor, None or a document name
    phase,        \* "boot" before main has run, "serving", or "exit" (main returned 1)
    sameFs,       \* whether the temp directory is on the dataset's filesystem
    threads,      \* per request thread: the handler's position and locals
    last,         \* the last handler that completed, with its arguments and result
    calls,        \* the handlers that completed on request threads, in order of completion
    nops,         \* number of requests received so far
    todo          \* the reviewer's place on the page: 0 when the page is to be
                  \* fetched, else the position of the next test to mark

vars == <<file, PDF_TESTS, ALL_PDFS, CURRENT_PDF, phase, sameFs, threads, last, calls, nops, todo>>

----------------------------------------------------------------------------
(* Bounds of the model *)

MaxLines == 3       \* lines of a record file that is only loaded (SpecLoad)
MaxRecords == 2     \* lines of the record file a session starts from (Spec)
MaxOps == 2         \* requests handled in a session
MaxCalls == 2       \* requests handled by the request threads (SpecIO, SpecConc)

----------------------------------------------------------------------------
(* Values *)

None == "None"

\* dict.get(k): the value, or None when the key is absent
Get(test, k) == IF k \in DOMAIN test THEN test[k] ELSE None

\* Python truth value of a str-or-None
Truthy(v) == v # None /\ v # ""

\* test[field] = value
SetItem(test, field, value) ==
    [k \in DOMAIN test \cup {field} |-> IF k = field THEN value ELSE test[k]]

Rec(pdf, id) == [pdf |-> pdf, id |-> id]

----------------------------------------------------------------------------
(* Lines of the record file.  A line is one JSON object, a JSON value that *)
(* is no object, text that is no JSON, or blank.  canon says whether the   *)
(* text is byte for byte what json.dumps writes for the object.            *)

ObjLine(test, canon) == [kind |-> "obj", val |-> test, canon |-> canon]
ScalarLine == [kind |-> "scalar"]
BadLine == [kind |-> "bad"]
BlankLine == [kind |-> "blank"]

\* json.dumps(test) + "\n"
\* a dump that leaves out the fields whose value is null
json_dumps_SkipNull(test) ==
    ObjLine([k \in {f \in DOMAIN test : test[f] # None} |-> test[k]], TRUE)

json_dumps(test) == ObjLine(test, TRUE)

----------------------------------------------------------------------------
(* The dict PDF_TESTS: a sequence of items [key, tests] in insertion order *)

Keys(d) == [i \in 1..Len(d) |-> d[i].key]
KeySet(d) == {d[i].key : i \in 1..Len(d)}
KeyPos(d, k) == CHOOSE i \in 1..Len(d) : d[i].key = k

\* d.get(k, [])
DictGet(d, k) == IF k \in KeySet(d) THEN d[KeyPos(d, k)].tests ELSE <<>>

\* a load that keeps only the last test of each document
DictAppend_Overwrite(d, k, test) ==
    IF k \in KeySet(d)
    THEN [d EXCEPT ![KeyPos(d, k)].tests = <<test>>]
    ELSE Append(d, [key |-> k, tests |-> <<test>>])

\* a load that puts each test in front of its document's list
DictAppend_Front(d, k, test) ==
    IF k \in KeySet(d)
    THEN [d EXCEPT ![KeyPos(d, k)].tests = <<test>> \o @]
    ELSE Append(d, [key |-> k, tests |-> <<test>>])

\* a load that files a test under the document seen first
DictAppend_FirstKey(d, k, test) ==
    IF d = <<>> THEN <<[key |-> k, tests |-> <<test>>]>>
    ELSE [d EXCEPT ![1].tests = Append(@, test)]

\* defaultdict(list): d[k].append(test)
DictAppend(d, k, test) ==
    IF k \in KeySet(d)
    THEN [d EXCEPT ![KeyPos(d, k)].tests = Append(@, test)]
    ELSE Append(d, [key |-> k, tests |-> <<test>>])

\* x in lst, lst.index(x)
InList(x, lst) == \E i \in 1..Len(lst) : lst[i] = x
ListIndex(lst, x) == CHOOSE i \in 1..Len(lst) : lst[i] = x /\ \A j \in 1..(i - 1) : lst[j] # x

----------------------------------------------------------------------------
(* find_next_unchecked_pdf *)

\* a test whose checked is null counted as reviewed
IsUnchecked_KeyMissing(test) == "checked" \notin DOMAIN test

\* test.get("checked") is None
IsUnchecked(test) == Get(test, "checked") = None

RECURSIVE AnyUnchecked(_)
AnyUnchecked(pdf_tests) ==
    IF pdf_tests = <<>> THEN FALSE
    ELSE IF IsUnchecked(Head(pdf_tests)) THEN TRUE
    ELSE AnyUnchecked(Tail(pdf_tests))

\* a search that returns the pdf field of the unchecked test it found
RECURSIVE ScanPdfs_TestPdf(_, _)
ScanPdfs_TestPdf(pdfs, d) ==
    IF pdfs = <<>> THEN None
    ELSE LET tests == d[KeyPos(d, Head(pdfs))].tests
             unchecked == SelectSeq(tests, LAMBDA test : Get(test, "checked") = None) IN
         IF unchecked # <<>> THEN Get(Head(unchecked), "pdf")
         ELSE ScanPdfs_TestPdf(Tail(pdfs), d)

RECURSIVE ScanPdfs(_, _)
ScanPdfs(pdfs, d) ==
    IF pdfs = <<>> THEN None
    ELSE IF AnyUnchecked(d[KeyPos(d, Head(pdfs))].tests) THEN Head(pdfs)
    ELSE ScanPdfs(Tail(pdfs), d)

find_next_unchecked_pdf == ScanPdfs(ALL_PDFS, PDF_TESTS)

----------------------------------------------------------------------------
(* save_dataset *)

RECURSIVE Flatten(_)
Flatten(d) == IF d = <<>> THEN <<>> ELSE Head(d).tests \o Flatten(Tail(d))

Serialize(d) == [i \in 1..Len(Flatten(d)) |-> json_dumps(Flatten(d)[i])]

\* the content of the record file once save_dataset has returned
save_dataset(d) == Serialize(d)

----------------------------------------------------------------------------
(* load_dataset *)

LoadError == [ok |-> FALSE]

RECURSIVE LoadLines(_, _)
LoadLines(lines, pdf_tests) ==
    IF lines = <<>> THEN [ok |-> TRUE, tests |-> pdf_tests, all_pdfs |-> Keys(pdf_tests)]
    ELSE LET line == Head(lines) IN
        CASE line.kind = "blank" -> LoadLines(Tail(lines), pdf_tests)
          [] line.kind = "bad" -> LoadLines(Tail(lines), pdf_tests)
          [] line.kind = "scalar" -> LoadError
          [] line.kind = "obj" ->
                LET pdf_name == Get(line.val, "pdf") IN
                IF Truthy(pdf_name)
                THEN LoadLines(Tail(lines), DictAppend(pdf_tests, pdf_name, line.val))
                ELSE LoadLines(Tail(lines), pdf_tests)

load_dataset(lines) == LoadLines(lines, <<>>)

----------------------------------------------------------------------------
(* update_test: the edit of the in-memory record *)

\* position of the first test whose id matches, 0 when the loop finds none
RECURSIVE MatchFrom(_, _, _)
MatchFrom(tests, id, i) ==
    IF i > Len(tests) THEN 0
    ELSE IF Get(tests[i], "id") = id THEN i
    ELSE MatchFrom(tests, id, i + 1)

MatchPos(tests, id) == MatchFrom(tests, id, 1)

\* an edit that creates the test it does not find
EditTests_Upsert(tests, id, field, value) ==
    IF MatchPos(tests, id) = 0 THEN Append(tests, SetItem([id |-> id], field, value))
    ELSE [tests EXCEPT ![MatchPos(tests, id)] = SetItem(@, field, value)]

\* the loop of lines 105-108 without its break: every test with the id is edited
EditTests_NoBreak(tests, id, field, value) ==
    [i \in 1..Len(tests) |->
        IF Get(tests[i], "id") = id THEN SetItem(tests[i], field, value) ELSE tests[i]]

EditTests(tests, id, field, value) ==
    IF MatchPos(tests, id) = 0 THEN tests
    ELSE [tests EXCEPT ![MatchPos(tests, id)] = SetItem(@, field, value)]

\* an edit made to a copy of the test
EditDict_OnCopy(d, pdf, id, field, value) == d

EditDict(d, pdf, id, field, value) ==
    IF pdf \in KeySet(d)
    THEN [d EXCEPT ![KeyPos(d, pdf)].tests = EditTests(@, id, field, value)]
    ELSE d

Matches(d, pdf, id) == MatchPos(DictGet(d, pdf), id) # 0

----------------------------------------------------------------------------
(* The requests the model sends *)

ReqPdfs == {"A", "B"}
ReqIds == {"t1", "t2"}
ReqEdits == {<<"checked", "verified">>, <<"checked", None>>, <<"pdf", "B">>, <<"pdf", None>>,
             <<"id", "t2">>, <<"text", "B">>}
GotoIndexes == 0..MaxRecords

(* The record files the model starts from *)

CheckedStates == {"absent", None, "verified"}

TestOf(pdf, id, checked) ==
    IF checked = "absent" THEN Rec(pdf, id) ELSE SetItem(Rec(pdf, id), "checked", checked)

LineAlphabet ==
    {ObjLine(TestOf(p, i, c), TRUE) : p \in {"A", "B"}, i \in ReqIds, c \in CheckedStates}
    \cup {ObjLine([id |-> "t1"], TRUE), ObjLine(Rec("", "t1"), TRUE),
          ObjLine(Rec("A", "t1"), FALSE), ScalarLine, BadLine, BlankLine}

Streams == UNION {[1..n -> LineAlphabet] : n \in 0..MaxLines}

SessionAlphabet ==
    {ObjLine(TestOf("A", i, c), TRUE) : i \in ReqIds, c \in {"absent", "verified"}}
    \cup {ObjLine(TestOf("B", "t1", c), TRUE) : c \in {"absent", "verified"}}
    \cup {BadLine}

SessionFiles == UNION {[1..n -> SessionAlphabet] : n \in 0..MaxRecords}

\* the record files a reviewer works through
ReviewAlphabet == SessionAlphabet \cup {ObjLine(TestOf("B", "t1", None), TRUE)}
ReviewFiles == UNION {[1..n -> ReviewAlphabet] : n \in 0..MaxLines}

ThreadFile == <<ObjLine(Rec("A", "t1"), TRUE), ObjLine(Rec("B", "t1"), TRUE)>>

----------------------------------------------------------------------------
(* Calls of the handlers *)

NoCall == [op |-> "none", pdf |-> None, id |-> None, field |-> None, value |-> None,
           index |-> 0, hit |-> FALSE, from |-> None, result |-> "none"]

UpdateCall(pdf, id, field, value) ==
    [NoCall EXCEPT !.op = "update_test", !.pdf = pdf, !.id = id, !.field = field, !.value = value]

NavCall(op, i) == [NoCall EXCEPT !.op = op, !.index = i]

NavCalls == {NavCall("next_pdf", 0), NavCall("prev_pdf", 0)}
            \cup {NavCall("goto_pdf", i) : i \in GotoIndexes}

----------------------------------------------------------------------------
(* The cursor assignment each handler makes, if it makes one *)

NoWrite == [assign |-> FALSE, value |-> None]
Assign(v) == [assign |-> TRUE, value |-> v]
Written(w, cur) == IF w.assign THEN w.value ELSE cur

\* index, lines 70-71
index_write(cur, pdfs, d) ==
    IF cur = None THEN Assign(ScanPdfs(pdfs, d)) ELSE NoWrite

\* a next_pdf that wraps around to the first document
next_pdf_write_Wrap(cur, pdfs, d) ==
    IF InList(cur, pdfs)
    THEN IF ListIndex(pdfs, cur) < Len(pdfs)
         THEN Assign(pdfs[ListIndex(pdfs, cur) + 1])
         ELSE Assign(pdfs[1])
    ELSE Assign(ScanPdfs(pdfs, d))

\* a next_pdf that always looks for the next unchecked document
next_pdf_write_FindNext(cur, pdfs, d) == Assign(ScanPdfs(pdfs, d))

\* a next_pdf without the else branch of line 128
next_pdf_write_NoFallback(cur, pdfs, d) ==
    IF InList(cur, pdfs)
    THEN IF ListIndex(pdfs, cur) < Len(pdfs)
         THEN Assign(pdfs[ListIndex(pdfs, cur) + 1])
         ELSE Assign(ScanPdfs(pdfs, d))
    ELSE NoWrite

\* a next_pdf that ends the review once the last document is passed
next_pdf_write_DoneAtEnd(cur, pdfs, d) ==
    IF InList(cur, pdfs)
    THEN IF ListIndex(pdfs, cur) < Len(pdfs)
         THEN Assign(pdfs[ListIndex(pdfs, cur) + 1])
         ELSE Assign(None)
    ELSE Assign(ScanPdfs(pdfs, d))

\* next_pdf, lines 122-129
next_pdf_write(cur, pdfs, d) ==
    IF InList(cur, pdfs)
    THEN IF ListIndex(pdfs, cur) < Len(pdfs)
         THEN Assign(pdfs[ListIndex(pdfs, cur) + 1])
         ELSE Assign(ScanPdfs(pdfs, d))
    ELSE Assign(ScanPdfs(pdfs, d))

\* a prev_pdf without the test current_index > 0: ALL_PDFS[-1] is the last document
prev_pdf_write_Negative(cur, pdfs) ==
    IF InList(cur, pdfs)
    THEN Assign(pdfs[IF ListIndex(pdfs, cur) > 1 THEN ListIndex(pdfs, cur) - 1 ELSE Len(pdfs)])
    ELSE NoWrite

\* prev_pdf, lines 139-142
prev_pdf_write(cur, pdfs) ==
    IF InList(cur, pdfs) /\ ListIndex(pdfs, cur) > 1
    THEN Assign(pdfs[ListIndex(pdfs, cur) - 1])
    ELSE NoWrite

\* a goto_pdf that clamps an index past the end to the last document
goto_pdf_write_Clamp(i, pdfs) ==
    IF pdfs = <<>> THEN NoWrite
    ELSE IF 0 <= i /\ i < Len(pdfs) THEN Assign(pdfs[i + 1]) ELSE Assign(pdfs[Len(pdfs)])

\* goto_pdf, lines 152-153
goto_pdf_write(i, pdfs) ==
    IF 0 <= i /\ i < Len(pdfs) THEN Assign(pdfs[i + 1]) ELSE NoWrite

CursorWrite(call, cur, pdfs, d) ==
    CASE call.op = "index" -> index_write(cur, pdfs, d)
      [] call.op = "next_pdf" -> next_pdf_write(cur, pdfs, d)
      [] call.op = "prev_pdf" -> prev_pdf_write(cur, pdfs)
      [] call.op = "goto_pdf" -> goto_pdf_write(call.index, pdfs)
      [] OTHER -> NoWrite

----------------------------------------------------------------------------
(* A handler run from start to end on the state st = [tests, cur, file] *)

\* handlers that all end with save_dataset()
Handle_SaveAlways(call, pdfs, st) ==
    IF call.op = "update_test"
    THEN LET edited == EditDict(st.tests, call.pdf, call.id, call.field, call.value) IN
         [tests |-> edited, cur |-> st.cur, file |-> save_dataset(edited)]
    ELSE [tests |-> st.tests,
          cur |-> Written(CursorWrite(call, st.cur, pdfs, st.tests), st.cur),
          file |-> save_dataset(st.tests)]

Handle(call, pdfs, st) ==
    IF call.op = "update_test"
    THEN LET edited == EditDict(st.tests, call.pdf, call.id, call.field, call.value) IN
         [tests |-> edited, cur |-> st.cur, file |-> save_dataset(edited)]
    ELSE [tests |-> st.tests,
          cur |-> Written(CursorWrite(call, st.cur, pdfs, st.tests), st.cur),
          file |-> st.file]

\* what the handler returns
Response(call, cur) ==
    CASE call.op = "update_test" -> "success"
      [] call.op = "index" -> IF cur = None THEN "all_done" ELSE "review"
      [] OTHER -> "redirect"

----------------------------------------------------------------------------
(* Startup *)

Idle == [pc |-> "idle", call |-> NoCall, before |-> <<>>, written |-> <<>>, write |-> NoWrite]
Threads == {1, 2}

Boot(files, fs) ==
    /\ file \in files
    /\ PDF_TESTS = <<>>
    /\ ALL_PDFS = <<>>
    /\ CURRENT_PDF = None
    /\ phase = "boot"
    /\ sameFs \in fs
    /\ threads = [t \in Threads |-> Idle]
    /\ last = NoCall
    /\ calls = <<>>
    /\ nops = 0
    /\ todo = 0

Init == Boot(SessionFiles, {TRUE})
InitLoad == Boot(Streams, {TRUE})
InitIO == Boot({ThreadFile}, BOOLEAN)
InitReview == Boot(ReviewFiles, {TRUE})
InitConc == Boot({ThreadFile}, {TRUE})

\* main: load_dataset, then a cursor assignment that binds a local of main,
\* because main declares only DATASET_DIR, PDF_TESTS and ALL_PDFS global
main ==
    /\ phase = "boot"
    /\ LET loaded == load_dataset(file) IN
        IF loaded.ok
        THEN /\ PDF_TESTS' = loaded.tests
             /\ ALL_PDFS' = loaded.all_pdfs
             /\ phase' = "serving"
        ELSE /\ UNCHANGED <<PDF_TESTS, ALL_PDFS>>
             /\ phase' = "exit"
    /\ UNCHANGED <<file, CURRENT_PDF, sameFs, threads, last, calls, nops, todo>>

----------------------------------------------------------------------------
(* Request handlers, one request at a time, the filesystem not failing *)

Serving == phase = "serving" /\ nops < MaxOps

\* the handler of the call runs from its start to its return
Request(call) ==
    /\ LET st == Handle(call, ALL_PDFS, [tests |-> PDF_TESTS, cur |-> CURRENT_PDF, file |-> file]) IN
        /\ PDF_TESTS' = st.tests
        /\ CURRENT_PDF' = st.cur
        /\ file' = st.file
        /\ last' = [call EXCEPT !.hit = Matches(PDF_TESTS, call.pdf, call.id),
                                !.from = CURRENT_PDF,
                                !.result = Response(call, st.cur)]
    /\ nops' = nops + 1
    /\ UNCHANGED <<ALL_PDFS, phase, sameFs, threads, calls, todo>>

index ==
    /\ Serving
    /\ Request(NavCall("index", 0))

update_test(pdf, id, field, value) ==
    /\ Serving
    /\ Request(UpdateCall(pdf, id, field, value))

next_pdf ==
    /\ Serving
    /\ Request(NavCall("next_pdf", 0))

prev_pdf ==
    /\ Serving
    /\ Request(NavCall("prev_pdf", 0))

goto_pdf(i) ==
    /\ Serving
    /\ Request(NavCall("goto_pdf", i))

Next ==
    \/ main
    \/ index
    \/ \E pdf \in ReqPdfs, id \in ReqIds, e \in ReqEdits : update_test(pdf, id, e[1], e[2])
    \/ next_pdf
    \/ prev_pdf
    \/ \E i \in GotoIndexes : goto_pdf(i)

Spec == Init /\ [][Next]_vars

\* a record file that is loaded and no more
SpecLoad == InitLoad /\ [][main]_vars

----------------------------------------------------------------------------
(* Request handlers step by step, each request on a thread of its own *)

Admit(t) == phase = "serving" /\ threads[t].pc = "idle" /\ nops < MaxCalls

\* the handler of thread t returns, or raises (result "error")
Complete(t, result) ==
    /\ threads' = [threads EXCEPT ![t] = Idle]
    /\ last' = [threads[t].call EXCEPT !.result = result]
    /\ calls' = Append(calls, [threads[t].call EXCEPT !.result = result])

\* update_test, lines 98-108, and save_dataset up to the creation of the temp file:
\* all_tests holds the dicts of PDF_TESTS themselves, not copies
update_begin(t, pdf, id, field, value) ==
    /\ Admit(t)
    /\ PDF_TESTS' = EditDict(PDF_TESTS, pdf, id, field, value)
    /\ threads' = [threads EXCEPT ![t] =
            [pc |-> IF Flatten(PDF_TESTS) = <<>> THEN "move" ELSE "write",
             call |-> [UpdateCall(pdf, id, field, value) EXCEPT
                          !.hit = Matches(PDF_TESTS, pdf, id), !.from = CURRENT_PDF],
             before |-> file,
             written |-> <<>>,
             write |-> NoWrite]]
    /\ nops' = nops + 1
    /\ UNCHANGED <<file, ALL_PDFS, CURRENT_PDF, phase, sameFs, last, calls, todo>>

\* save_dataset, lines 50-51: one test is dumped, as it is now, to the temp file
update_write(t) ==
    /\ threads[t].pc = "write"
    /\ LET k == Len(threads[t].written) + 1
           all_tests == Flatten(PDF_TESTS) IN
        threads' = [threads EXCEPT ![t].written = Append(@, json_dumps(all_tests[k])),
                                   ![t].pc = IF k = Len(all_tests) THEN "move" ELSE "write"]
    /\ UNCHANGED <<file, PDF_TESTS, ALL_PDFS, CURRENT_PDF, phase, sameFs, last, calls, nops, todo>>

\* the write to the temp file raises (the temp directory is full)
update_write_fails(t) ==
    /\ threads[t].pc = "write"
    /\ Complete(t, "error")
    /\ UNCHANGED <<file, PDF_TESTS, ALL_PDFS, CURRENT_PDF, phase, sameFs, nops, todo>>

\* save_dataset, line 54, shutil.move: os.rename when the temp directory is on the
\* dataset's filesystem; otherwise a copy onto the record file, which opens it
\* for writing and so truncates it, then writes it piece by piece
update_move(t) ==
    /\ threads[t].pc = "move"
    /\ IF sameFs
       THEN /\ file' = threads[t].written
            /\ Complete(t, "success")
       ELSE /\ file' = <<>>
            /\ IF threads[t].written = <<>>
               THEN Complete(t, "success")
               ELSE /\ threads' = [threads EXCEPT ![t].pc = "copy"]
                    /\ UNCHANGED <<last, calls>>
    /\ UNCHANGED <<PDF_TESTS, ALL_PDFS, CURRENT_PDF, phase, sameFs, nops, todo>>

update_copy(t) ==
    /\ threads[t].pc = "copy"
    /\ Len(file) < Len(threads[t].written)
    /\ file' = Append(file, threads[t].written[Len(file) + 1])
    /\ IF Len(file) + 1 = Len(threads[t].written)
       THEN Complete(t, "success")
       ELSE UNCHANGED <<threads, last, calls>>
    /\ UNCHANGED <<PDF_TESTS, ALL_PDFS, CURRENT_PDF, phase, sameFs, nops, todo>>

\* the copy raises part way (the dataset's filesystem is full)
update_copy_fails(t) ==
    /\ threads[t].pc = "copy"
    /\ Complete(t, "error")
    /\ UNCHANGED <<file, PDF_TESTS, ALL_PDFS, CURRENT_PDF, phase, sameFs, nops, todo>>

\* index, next_pdf, prev_pdf, goto_pdf: the reads of the globals
nav_begin(t, call) ==
    /\ Admit(t)
    /\ threads' = [threads EXCEPT ![t] =
            [Idle EXCEPT !.pc = "nav",
                         !.call = [call EXCEPT !.from = CURRENT_PDF],
                         !.write = CursorWrite(call, CURRENT_PDF, ALL_PDFS, PDF_TESTS)]]
    /\ nops' = nops + 1
    /\ UNCHANGED <<file, PDF_TESTS, ALL_PDFS, CURRENT_PDF, phase, sameFs, last, calls, todo>>

\* ... and the assignment to CURRENT_PDF, if the handler makes one
nav_end(t) ==
    /\ threads[t].pc = "nav"
    /\ CURRENT_PDF' = Written(threads[t].write, CURRENT_PDF)
    /\ Complete(t, Response(threads[t].call, CURRENT_PDF'))
    /\ UNCHANGED <<file, PDF_TESTS, ALL_PDFS, phase, sameFs, nops, todo>>

ThreadStep(t) ==
    \/ \E pdf \in ReqPdfs, id \in ReqIds, e \in ReqEdits : update_begin(t, pdf, id, e[1], e[2])
    \/ update_write(t)
    \/ update_move(t)
    \/ \E call \in NavCalls \cup {NavCall("index", 0)} : nav_begin(t, call)
    \/ nav_end(t)

Alone(t) == \A u \in Threads \ {t} : threads[u].pc = "idle"

\* one request at a time, on a filesystem that can fail
NextIO ==
    \/ main
    \/ \E t \in Threads : Alone(t) /\ ThreadStep(t)
    \/ \E t \in Threads : update_copy(t)
    \/ \E t \in Threads : update_write_fails(t)
    \/ \E t \in Threads : update_copy_fails(t)

SpecIO == InitIO /\ [][NextIO]_vars

\* requests served concurrently (app.run serves each request on a thread of its
\* own, and no handler takes a lock)
NextConc ==
    \/ main
    \/ \E t \in Threads : ThreadStep(t)

SpecConc == InitConc /\ [][NextConc]_vars

----------------------------------------------------------------------------
(* A reviewer who works through the pages: fetches the page (index), marks   *)
(* each test of the document shown (update_test on checked), then follows    *)
(* the link to the next document (next_pdf, which redirects to index)        *)

\* one request of the reviewer, handled from start to end; place is where the
\* reviewer stands afterwards.  nops stops counting at MaxOps.
Review(call, place) ==
    /\ phase = "serving"
    /\ LET st == Handle(call, ALL_PDFS,
                        [tests |-> PDF_TESTS, cur |-> CURRENT_PDF, file |-> file]) IN
        /\ PDF_TESTS' = st.tests
        /\ CURRENT_PDF' = st.cur
        /\ file' = st.file
        /\ last' = [call EXCEPT !.hit = Matches(PDF_TESTS, call.pdf, call.id),
                                !.from = CURRENT_PDF,
                                !.result = Response(call, st.cur)]
    /\ nops' = IF nops < MaxOps THEN nops + 1 ELSE nops
    /\ todo' = place
    /\ UNCHANGED <<ALL_PDFS, phase, sameFs, threads, calls>>

Shown == DictGet(PDF_TESTS, CURRENT_PDF)

\* GET /
review_page ==
    /\ todo = 0
    /\ Review(NavCall("index", 0), 1)

\* the Approve button of the next test on the page, line 475: POST /update_test
\* with the test's own pdf and id
review_mark ==
    /\ todo >= 1 /\ todo <= Len(Shown)
    /\ CURRENT_PDF # None
    /\ Review(UpdateCall(Get(Shown[todo], "pdf"), Get(Shown[todo], "id"), "checked", "verified"),
              todo + 1)

\* the Next button, line 446, once every test on the page has been marked
review_next ==
    /\ todo > Len(Shown)
    /\ CURRENT_PDF # None
    /\ Review(NavCall("next_pdf", 0), 0)

NextReview == main \/ review_page \/ review_mark \/ review_next

\* the reviewer goes on as long as there is a page to work on
SpecReview ==
    /\ InitReview /\ [][NextReview]_vars
    /\ WF_vars(main) /\ WF_vars(review_page) /\ WF_vars(review_mark) /\ WF_vars(review_next)

----------------------------------------------------------------------------
(* Vocabulary of the properties *)

\* the records of the index, document by document
Records(d) == UNION {{<<i, j>> : j \in 1..Len(d[i].tests)} : i \in 1..Len(d)}
RecordAt(d, ij) == d[ij[1]].tests[ij[2]]

\* checked is unset, or null
Unreviewed(test) == "checked" \notin DOMAIN test \/ test["checked"] = None

DocUnreviewed(d, pdf) ==
    \E ij \in Records(d) : d[ij[1]].key = pdf /\ Unreviewed(RecordAt(d, ij))

\* every record's pdf field names the document whose sequence holds the record
Owned(d) == \A ij \in Records(d) : Get(RecordAt(d, ij), "pdf") = d[ij[1]].key

\* the number of times x occurs in the sequence s
Count(s, x) == Cardinality({i \in 1..Len(s) : s[i] = x})
Range(s) == {s[i] : i \in 1..Len(s)}
SameMultiset(a, b) == \A x \in Range(a) \cup Range(b) : Count(a, x) = Count(b, x)

\* the field-maps of the record lines of a stream
RECURSIVE ObjectsOf(_)
ObjectsOf(lines) ==
    IF lines = <<>> THEN <<>>
    ELSE IF Head(lines).kind = "obj" THEN <<Head(lines).val>> \o ObjectsOf(Tail(lines))
    ELSE ObjectsOf(Tail(lines))

RECURSIVE OfPdf(_, _)
OfPdf(tests, pdf) ==
    IF tests = <<>> THEN <<>>
    ELSE IF Get(Head(tests), "pdf") = pdf THEN <<Head(tests)>> \o OfPdf(Tail(tests), pdf)
    ELSE OfPdf(Tail(tests), pdf)

Quiescent == phase = "serving" /\ \A t \in Threads : threads[t].pc = "idle"
Saving(t) == threads[t].pc \in {"write", "move", "copy"}
LastDoc(pdf) == Len(ALL_PDFS) > 0 /\ ALL_PDFS[Len(ALL_PDFS)] = pdf

----------------------------------------------------------------------------
(* C1: find_next_unchecked_pdf returns None exactly when every record of the *)
(* index has checked set to a non-null value; otherwise it returns the first *)
(* document of ALL_PDFS that holds a record whose checked is unset or null.  *)
C1_FindNextUnreviewed ==
    phase = "serving" =>
        LET r == find_next_unchecked_pdf IN
        /\ (r = None) <=> (\A ij \in Records(PDF_TESTS) : ~Unreviewed(RecordAt(PDF_TESTS, ij)))
        /\ r # None =>
              \E k \in 1..Len(ALL_PDFS) :
                 /\ ALL_PDFS[k] = r
                 /\ DocUnreviewed(PDF_TESTS, r)
                 /\ \A j \in 1..(k - 1) : ~DocUnreviewed(PDF_TESTS, ALL_PDFS[j])

\* the second document is returned, for a record whose checked is null, the
\* first document being reviewed
C1_Witness ==
    /\ phase = "serving"
    /\ Len(ALL_PDFS) = 2
    /\ find_next_unchecked_pdf = ALL_PDFS[2]
    /\ \E ij \in Records(PDF_TESTS) :
          "checked" \in DOMAIN RecordAt(PDF_TESTS, ij) /\ RecordAt(PDF_TESTS, ij)["checked"] = None

----------------------------------------------------------------------------
(* C2: edit durability.  After update_test has edited an existing record and *)
(* returned success, the record found in the reloaded file under the same    *)
(* (pdf, id) has field = value.                                              *)

Reloaded == load_dataset(file)

Durable ==
    /\ Reloaded.ok
    /\ Matches(Reloaded.tests, last.pdf, last.id)
    /\ LET tests == DictGet(Reloaded.tests, last.pdf) IN
          /\ last.field \in DOMAIN tests[MatchPos(tests, last.id)]
          /\ tests[MatchPos(tests, last.id)][last.field] = last.value

EditDone == last.op = "update_test" /\ last.hit /\ last.result = "success"

\* the claim as made: for every field, pdf and id included
C2_DurableAnyField == EditDone => Durable

\* as amended: for every field and value that leave the record's pdf and id as
\* they were, the records' pdf fields naming the documents that hold them
C2_Durable ==
    (/\ EditDone
     /\ last.field = "pdf" => last.value = last.pdf
     /\ last.field = "id" => last.value = last.id
     /\ Owned(PDF_TESTS)) => Durable

\* a second edit, of the second of two records of one document
C2_Witness ==
    /\ EditDone
    /\ last.field = "text"
    /\ Owned(PDF_TESTS)
    /\ nops = 2
    /\ MatchPos(DictGet(PDF_TESTS, last.pdf), last.id) = 2

----------------------------------------------------------------------------
(* C3: while save_dataset replaces the record file, the file holds either    *)
(* its content from before the save or the whole new content.                *)
C3_AtomicReplace ==
    \A t \in Threads :
        Saving(t) => \/ file = threads[t].before
                     \/ threads[t].pc = "copy" /\ file = threads[t].written

----------------------------------------------------------------------------
(* C4: the handlers are serialized: whenever no request is in progress, the  *)
(* index, the cursor and the record file are what the completed requests     *)
(* leave when run one after another in some order.                           *)

RECURSIVE RunCalls(_, _, _)
RunCalls(order, k, st) ==
    IF k > Len(order) THEN st ELSE RunCalls(order, k + 1, Handle(order[k], ALL_PDFS, st))

Booted == [tests |-> load_dataset(ThreadFile).tests, cur |-> None, file |-> ThreadFile]

Mutating == {"update_test", "next_pdf", "prev_pdf", "goto_pdf"}

C4_Serializable ==
    (Quiescent /\ \A i \in 1..Len(calls) : calls[i].op \in Mutating) =>
        \E p \in Permutations(1..Len(calls)) :
            RunCalls([i \in 1..Len(calls) |-> calls[p[i]]], 1, Booted)
                = [tests |-> PDF_TESTS, cur |-> CURRENT_PDF, file |-> file]

----------------------------------------------------------------------------
(* C5: round trip.  For a stream whose lines are all records with a pdf      *)
(* value, save(load(stream)) holds the same multiset of field-maps, the      *)
(* records of each document in their order in the stream.                    *)

HasPdfValue(line) == line.kind = "obj" /\ "pdf" \in DOMAIN line.val /\ line.val["pdf"] # None
HasPdfName(line) == HasPdfValue(line) /\ line.val["pdf"] # ""

RoundTrip ==
    LET in == ObjectsOf(file)
        out == ObjectsOf(save_dataset(PDF_TESTS)) IN
    /\ Len(save_dataset(PDF_TESTS)) = Len(file)
    /\ SameMultiset(in, out)
    /\ \A pdf \in {Get(in[i], "pdf") : i \in 1..Len(in)} : OfPdf(in, pdf) = OfPdf(out, pdf)

\* the claim as made: a pdf value of any kind
C5_RoundTripAnyPdf ==
    (phase = "serving" /\ \A i \in 1..Len(file) : HasPdfValue(file[i])) => RoundTrip

\* as amended: a pdf value that is not the empty string
C5_RoundTrip ==
    (phase = "serving" /\ \A i \in 1..Len(file) : HasPdfName(file[i])) => RoundTrip

\* the records of two documents interleaved: the saved stream groups them
C5_Witness ==
    /\ phase = "serving"
    /\ Len(file) = 3
    /\ \A i \in 1..Len(file) : HasPdfName(file[i])
    /\ Len(PDF_TESTS) = 2
    /\ ObjectsOf(save_dataset(PDF_TESTS)) # ObjectsOf(file)

----------------------------------------------------------------------------
(* C6: update_test for a (pdf, id) that matches no record returns success    *)
(* and changes no record.                                                    *)

NoMatchStep == last'.op = "update_test" /\ ~last'.hit /\ nops' = nops + 1

\* the claim as made: ... and the record file keeps its content
C6_NoOpFileUntouched ==
    [][NoMatchStep => /\ last'.result = "success"
                      /\ PDF_TESTS' = PDF_TESTS
                      /\ file' = file]_vars

\* as amended: ... and the record file is rewritten with the serialization of
\* the unchanged index
C6_NoOp ==
    [][NoMatchStep => /\ last'.result = "success"
                      /\ PDF_TESTS' = PDF_TESTS
                      /\ file' = Serialize(PDF_TESTS)]_vars

\* an edit of a document that is not in the index, the index not empty
C6_Witness ==
    /\ last.op = "update_test"
    /\ ~last.hit
    /\ last.result = "success"
    /\ last.pdf \notin KeySet(PDF_TESTS)
    /\ PDF_TESTS # <<>>
    /\ file = Serialize(PDF_TESTS)

----------------------------------------------------------------------------
(* C7: until a save has installed the new content, the record file holds its *)
(* content from before the update, whenever the save is interrupted.         *)
C7_IntactUntilInstalled == \A t \in Threads : Saving(t) => file = threads[t].before

----------------------------------------------------------------------------
(* C8: the cursor is None or a document of ALL_PDFS and of PDF_TESTS.        *)
C8_CursorValid ==
    \/ CURRENT_PDF = None
    \/ InList(CURRENT_PDF, ALL_PDFS) /\ CURRENT_PDF \in KeySet(PDF_TESTS)

\* the cursor has moved to a document after an edit of a pdf field
C8_Witness ==
    /\ CURRENT_PDF # None
    /\ last.op \in {"index", "next_pdf", "goto_pdf"}
    /\ last.from # CURRENT_PDF
    /\ ~Owned(PDF_TESTS)

----------------------------------------------------------------------------
(* C9: when main has loaded the dataset and no request has been handled,     *)
(* CURRENT_PDF is the result of find_next_unchecked_pdf.                     *)
C9_InitialCursor ==
    (phase = "serving" /\ nops = 0) => CURRENT_PDF = find_next_unchecked_pdf

----------------------------------------------------------------------------
(* C10: next_pdf from the last document returns its redirect and leaves the  *)
(* cursor at the result of find_next_unchecked_pdf.                          *)

AdvancedFromLast == last.op = "next_pdf" /\ LastDoc(last.from)

\* the claim as made: ... which is None or a document other than the last
C10_AdvanceLeavesLast ==
    AdvancedFromLast =>
        /\ last.result = "redirect"
        /\ CURRENT_PDF = find_next_unchecked_pdf
        /\ CURRENT_PDF = None \/ (InList(CURRENT_PDF, ALL_PDFS) /\ CURRENT_PDF # last.from)

\* as amended: ... which is None or a document holding an unreviewed record,
\* the last document itself when no document before it holds one
C10_Advance ==
    AdvancedFromLast =>
        /\ last.result = "redirect"
        /\ CURRENT_PDF = find_next_unchecked_pdf
        /\ CURRENT_PDF = None \/ (InList(CURRENT_PDF, ALL_PDFS) /\ DocUnreviewed(PDF_TESTS, CURRENT_PDF))
        /\ CURRENT_PDF = last.from =>
              \A j \in 1..(Len(ALL_PDFS) - 1) : ~DocUnreviewed(PDF_TESTS, ALL_PDFS[j])

\* the cursor stays on the last of two documents
C10_Witness ==
    /\ AdvancedFromLast
    /\ Len(ALL_PDFS) = 2
    /\ CURRENT_PDF = last.from

----------------------------------------------------------------------------
(* C11: next_pdf from a document that is not the last leaves the cursor on   *)
(* the document that follows it in ALL_PDFS, reviewed or not.                *)
C11_AdvanceToSuccessor ==
    (last.op = "next_pdf" /\ InList(last.from, ALL_PDFS) /\ ~LastDoc(last.from)) =>
        \E k \in 1..(Len(ALL_PDFS) - 1) : ALL_PDFS[k] = last.from /\ CURRENT_PDF = ALL_PDFS[k + 1]

\* the cursor has advanced to a document whose records are all reviewed, an
\* earlier document holding an unreviewed one
C11_Witness ==
    /\ last.op = "next_pdf"
    /\ Len(ALL_PDFS) = 2
    /\ last.from = ALL_PDFS[1]
    /\ CURRENT_PDF = ALL_PDFS[2]
    /\ ~DocUnreviewed(PDF_TESTS, CURRENT_PDF)
    /\ DocUnreviewed(PDF_TESTS, last.from)

----------------------------------------------------------------------------
(* C12: goto_pdf(i) with 0 <= i < len(ALL_PDFS) leaves the cursor on the     *)
(* document at position i, whatever the cursor was; with any other i it      *)
(* leaves the cursor as it was.                                              *)
C12_Goto ==
    last.op = "goto_pdf" =>
        IF 0 <= last.index /\ last.index < Len(ALL_PDFS)
        THEN CURRENT_PDF = ALL_PDFS[last.index + 1]
        ELSE CURRENT_PDF = last.from

\* an index past the end of a two-document list, the cursor on a document
C12_Witness ==
    /\ last.op = "goto_pdf"
    /\ Len(ALL_PDFS) = 2
    /\ last.index = 2
    /\ last.from # None
    /\ CURRENT_PDF = last.from

----------------------------------------------------------------------------
(* C13: prev_pdf from a document that is not the first leaves the cursor on  *)
(* the document before it; from the first document it leaves the cursor      *)
(* where it was.                                                             *)
C13_Retreat ==
    (last.op = "prev_pdf" /\ InList(last.from, ALL_PDFS)) =>
        \E k \in 1..Len(ALL_PDFS) :
            /\ ALL_PDFS[k] = last.from
            /\ CURRENT_PDF = IF k > 1 THEN ALL_PDFS[k - 1] ELSE last.from

\* the cursor stays on the first of two documents
C13_Witness ==
    /\ last.op = "prev_pdf"
    /\ Len(ALL_PDFS) = 2
    /\ last.from = ALL_PDFS[1]
    /\ CURRENT_PDF = ALL_PDFS[1]

----------------------------------------------------------------------------
(* C14: whenever the cursor names no document of ALL_PDFS (None included),   *)
(* each of next_pdf, prev_pdf and goto_pdf leaves the cursor on the result   *)
(* of find_next_unchecked_pdf().                                             *)
Navigation == {"next_pdf", "prev_pdf", "goto_pdf"}

C14_EveryNavigationFallsBack ==
    (last.op \in Navigation /\ ~InList(last.from, ALL_PDFS)) =>
        CURRENT_PDF = find_next_unchecked_pdf

(* C14, as the handlers have it: from a cursor that names no document of     *)
(* ALL_PDFS, next_pdf and the page render (index) leave the cursor on the    *)
(* result of find_next_unchecked_pdf(); prev_pdf leaves the cursor as it     *)
(* was; goto_pdf goes to the document at an index within range and leaves    *)
(* the cursor as it was otherwise.                                           *)
C14_Fallback ==
    ~InList(last.from, ALL_PDFS) =>
        /\ last.op \in {"next_pdf", "index"} => CURRENT_PDF = find_next_unchecked_pdf
        /\ last.op = "prev_pdf" => CURRENT_PDF = last.from
        /\ last.op = "goto_pdf" =>
              CURRENT_PDF = IF 0 <= last.index /\ last.index < Len(ALL_PDFS)
                            THEN ALL_PDFS[last.index + 1]
                            ELSE last.from

\* prev_pdf from the cursor None, an unreviewed record waiting: the cursor is
\* still None
C14_Witness ==
    /\ last.op = "prev_pdf"
    /\ last.from = None
    /\ CURRENT_PDF = None
    /\ find_next_unchecked_pdf # None

----------------------------------------------------------------------------
(* C15: a line that does not parse as a JSON object is skipped and never     *)
(* aborts the load: main reaches the serving phase, and every object line    *)
(* with a document name is in the index, in stream order.                    *)
C15_LineTolerant ==
    phase # "boot" =>
        /\ phase = "serving"
        /\ \A i \in 1..Len(file) : HasPdfName(file[i]) =>
              DictGet(PDF_TESTS, file[i].val["pdf"]) = OfPdf(ObjectsOf(file), file[i].val["pdf"])

----------------------------------------------------------------------------
(* C16: after a load, ALL_PDFS is the distinct pdf values of the stream in   *)
(* first-seen order, the keys of PDF_TESTS are exactly those values, each    *)
(* document's list is the records with that pdf value in stream order, and a *)
(* record without a pdf value is in no list.                                 *)
RECURSIVE FirstSeen(_, _)
FirstSeen(values, seen) ==
    IF values = <<>> THEN <<>>
    ELSE IF Head(values) \in seen THEN FirstSeen(Tail(values), seen)
    ELSE <<Head(values)>> \o FirstSeen(Tail(values), seen \cup {Head(values)})

PdfsOf(lines) == [i \in 1..Len(lines) |-> lines[i].val["pdf"]]

StreamOrder(values) ==
    LET order == FirstSeen(values, {}) IN
    /\ ALL_PDFS = order
    /\ Keys(PDF_TESTS) = order
    /\ \A i \in 1..Len(PDF_TESTS) :
          PDF_TESTS[i].tests = OfPdf(ObjectsOf(file), PDF_TESTS[i].key)

\* the claim as made: every pdf value observed names a document
C16_StreamOrderAnyPdf == phase = "serving" => StreamOrder(PdfsOf(SelectSeq(file, HasPdfValue)))

(* C16, as load_dataset has it: the documents are the distinct pdf values    *)
(* that are not empty; a record whose pdf is missing, null or empty is in no *)
(* list and makes no document.                                               *)
C16_StreamOrder == phase = "serving" => StreamOrder(PdfsOf(SelectSeq(file, HasPdfName)))

\* the second document of the stream seen first, its records around one of
\* the other document
C16_Witness ==
    /\ phase = "serving"
    /\ Len(file) = 3
    /\ \A i \in 1..3 : HasPdfName(file[i])
    /\ ALL_PDFS = <<"B", "A">>
    /\ Len(PDF_TESTS[1].tests) = 2
    /\ PDF_TESTS[1].tests[1] # PDF_TESTS[1].tests[2]

----------------------------------------------------------------------------
(* C17: in every state reached after the load by update_test and the         *)
(* navigation handlers, saving PDF_TESTS and loading the saved file gives    *)
(* the same multiset of records, field for field.                            *)
PersistReload == load_dataset(save_dataset(PDF_TESTS))

SameRecords ==
    /\ PersistReload.ok
    /\ SameMultiset(Flatten(PDF_TESTS), Flatten(PersistReload.tests))

NamedRecords(d) == \A ij \in Records(d) : Truthy(Get(RecordAt(d, ij), "pdf"))

\* the claim as made: in every state
C17_ReloadAnyState == phase = "serving" => SameRecords

(* C17, as the code has it: the same multiset comes back in every state in   *)
(* which each record's pdf field is neither null nor empty; a record whose   *)
(* pdf field update_test has set to null or to the empty string is dropped   *)
(* by the load.                                                              *)
C17_Reload == (phase = "serving" /\ NamedRecords(PDF_TESTS)) => SameRecords

\* a record's pdf field names another document and a field holds null: the
\* load regroups the records and the multiset is the same
C17_Witness ==
    /\ phase = "serving"
    /\ NamedRecords(PDF_TESTS)
    /\ ~Owned(PDF_TESTS)
    /\ \E ij \in Records(PDF_TESTS) : Get(RecordAt(PDF_TESTS, ij), "checked") = None
                                       /\ "checked" \in DOMAIN RecordAt(PDF_TESTS, ij)
    /\ PersistReload.tests # PDF_TESTS

----------------------------------------------------------------------------
(* C18: once the dataset is loaded, no step of update_test, next_pdf,         *)
(* prev_pdf, goto_pdf or index changes the set of document names, the list   *)
(* ALL_PDFS, or the number of records under a document; only the fields of   *)
(* the records that are there change.                                        *)
SameShape(d, e) ==
    /\ Keys(d) = Keys(e)
    /\ \A i \in 1..Len(d) : Len(d[i].tests) = Len(e[i].tests)

C18_NoRecordCreatedOrDeleted ==
    [][phase = "serving" => (ALL_PDFS' = ALL_PDFS /\ SameShape(PDF_TESTS, PDF_TESTS'))]_vars

\* two edits have changed fields of the records, one of them a pdf field, and
\* the index is the one the file was loaded into
C18_Witness ==
    /\ nops = 2
    /\ EditDone
    /\ ~Owned(PDF_TESTS)
    /\ Len(ALL_PDFS) = 2
    /\ Keys(PDF_TESTS) = ALL_PDFS
    /\ \A i \in 1..Len(PDF_TESTS) : Len(PDF_TESTS[i].tests) = 1

----------------------------------------------------------------------------
(* C19: when the write of the temp file or the move onto the record file     *)
(* fails during update_test, the handler does not return success and the     *)
(* record file holds what it held before the edit.                           *)
C19_FailureLeavesFile ==
    [][\A t \in Threads :
          (Saving(t) /\ threads'[t].pc = "idle" /\ last'.result # "success") =>
              (last'.result = "error" /\ file' = threads[t].before)]_vars

----------------------------------------------------------------------------
(* C20: in every state in which the cursor is None, every record has checked *)
(* set to a non-null value.                                                  *)
Reviewed == \A ij \in Records(PDF_TESTS) : ~Unreviewed(RecordAt(PDF_TESTS, ij))

C20_SentinelOnlyWhenDone == (phase = "serving" /\ CURRENT_PDF = None) => Reviewed

(* C20, as the handlers have it: when index or next_pdf returns with the     *)
(* cursor None, every record has checked set to a non-null value.  The       *)
(* cursor is None as well from startup until the first of these handlers or  *)
(* a goto_pdf within range runs, and stays None when update_test then sets a *)
(* checked field to null.                                                    *)
C20_SentinelAssigned ==
    (last.op \in {"index", "next_pdf"} /\ CURRENT_PDF = None) => Reviewed

\* next_pdf from the last document, every record reviewed: the cursor is None
C20_Witness ==
    /\ last.op = "next_pdf"
    /\ last.from # None
    /\ LastDoc(last.from)
    /\ CURRENT_PDF = None
    /\ Records(PDF_TESTS) # {}
    /\ Reviewed

----------------------------------------------------------------------------
(* C21: when two update_test requests for the same record and field have     *)
(* both returned success and no request is running, the record file holds    *)
(* for that field the value of the request that returned later, and so does  *)
(* PDF_TESTS.                                                                *)
FieldIn(tests, id, field) ==
    IF MatchPos(tests, id) = 0 THEN <<"no record">>
    ELSE IF field \in DOMAIN tests[MatchPos(tests, id)]
         THEN <<"value", tests[MatchPos(tests, id)][field]>>
         ELSE <<"no field">>

FieldOnDisk(pdf, id, field) == FieldIn(OfPdf(ObjectsOf(file), pdf), id, field)
FieldInMemory(pdf, id, field) == FieldIn(DictGet(PDF_TESTS, pdf), id, field)

SameRecordAndField(a, b) ==
    /\ a.op = "update_test" /\ b.op = "update_test"
    /\ a.hit /\ b.hit
    /\ a.result = "success" /\ b.result = "success"
    /\ a.pdf = b.pdf /\ a.id = b.id /\ a.field = b.field
    /\ a.field \notin {"pdf", "id"}

C21_LastCompletedWriteWins ==
    (Quiescent /\ Len(calls) = 2 /\ SameRecordAndField(calls[1], calls[2])) =>
        /\ FieldOnDisk(calls[2].pdf, calls[2].id, calls[2].field) = <<"value", calls[2].value>>
        /\ FieldInMemory(calls[2].pdf, calls[2].id, calls[2].field) = <<"value", calls[2].value>>

----------------------------------------------------------------------------
(* C22: once no request is running, and the latest update_test to return     *)
(* (matching or not) returned success, the record file is exactly the dump   *)
(* of PDF_TESTS: the tests of every document, documents in dict order, tests *)
(* in list order, one json.dumps line each.                                  *)
Applied == {i \in 1..Len(calls) : calls[i].op = "update_test"}
LatestApplied == CHOOSE i \in Applied : \A j \in Applied : j <= i

C22_FileIsDump ==
    (Quiescent /\ Applied # {} /\ calls[LatestApplied].result = "success") =>
        file = save_dataset(PDF_TESTS)

----------------------------------------------------------------------------
(* C23: in every state reached after the load by update_test requests, each  *)
(* record is in the list of one document and its pdf field is the name of    *)
(* that document.                                                            *)
C23_OwnedAlways == phase = "serving" => Owned(PDF_TESTS)

\* update_test has just given a record's pdf field a value that is not the
\* document it was asked for
PdfMoved(call) ==
    call.op = "update_test" /\ call.hit /\ call.field = "pdf" /\ call.value # call.pdf

(* C23, as update_test has it: the load leaves every record's pdf field      *)
(* naming the document whose list holds it, and every handler keeps it so    *)
(* except an update_test that sets the field pdf of a record to another      *)
(* value; the record then stays in the list it was loaded into.              *)
C23_Owned ==
    [][(phase' = "serving" /\ (phase = "serving" => Owned(PDF_TESTS)) /\ ~PdfMoved(last'))
          => Owned(PDF_TESTS')]_vars

\* two edits, the second of the field pdf with the name of the record's own
\* document: every record is still with its document
C23_Witness ==
    /\ nops = 2
    /\ EditDone
    /\ last.field = "pdf"
    /\ last.value = last.pdf
    /\ Len(ALL_PDFS) = 2
    /\ Owned(PDF_TESTS)

----------------------------------------------------------------------------
(* C24: update_test(pdf, id, field, value) changes nothing but the named     *)
(* field of the first test with that id in the list of document pdf: the     *)
(* other fields of that test, the other tests of the list (later ones with   *)
(* the same id too) and the tests of the other documents are as they were.   *)
SameButField(old, new, field) ==
    \A f \in (DOMAIN old \cup DOMAIN new) \ {field} :
        f \in DOMAIN old /\ f \in DOMAIN new /\ old[f] = new[f]

C24_OneFieldOfOneRecord ==
    [][(last'.op = "update_test" /\ nops' = nops + 1) =>
          /\ SameShape(PDF_TESTS, PDF_TESTS')
          /\ \A ij \in Records(PDF_TESTS) :
                IF /\ PDF_TESTS[ij[1]].key = last'.pdf
                   /\ ij[2] = MatchPos(DictGet(PDF_TESTS, last'.pdf), last'.id)
                THEN /\ SameButField(RecordAt(PDF_TESTS, ij), RecordAt(PDF_TESTS', ij), last'.field)
                     /\ Get(RecordAt(PDF_TESTS', ij), last'.field) = last'.value
                ELSE RecordAt(PDF_TESTS', ij) = RecordAt(PDF_TESTS, ij)]_vars

\* two tests with the same id under one document: the first holds the value,
\* the second does not
C24_Witness ==
    /\ EditDone
    /\ last.field = "checked"
    /\ LET tests == DictGet(PDF_TESTS, last.pdf) IN
          /\ Len(tests) = 2
          /\ Get(tests[1], "id") = last.id
          /\ Get(tests[2], "id") = last.id
          /\ Get(tests[1], "checked") = last.value
          /\ Get(tests[2], "checked") # last.value

----------------------------------------------------------------------------
(* C25: next_pdf, prev_pdf and goto_pdf leave PDF_TESTS, ALL_PDFS and the    *)
(* record file as they were; update_test leaves CURRENT_PDF as it was.       *)
C25_Frame ==
    [][nops' = nops + 1 =>
          /\ last'.op \in Navigation =>
                (PDF_TESTS' = PDF_TESTS /\ ALL_PDFS' = ALL_PDFS /\ file' = file)
          /\ last'.op = "update_test" => CURRENT_PDF' = CURRENT_PDF]_vars

\* a navigation has moved the cursor; the record file, never saved, still
\* differs from the dump of PDF_TESTS
C25_Witness ==
    /\ last.op \in Navigation
    /\ CURRENT_PDF # last.from
    /\ PDF_TESTS # <<>>
    /\ file # save_dataset(PDF_TESTS)

----------------------------------------------------------------------------
(* C26: from the state after the load of any dataset, a reviewer who marks   *)
(* every test of the document shown and then asks for the next document,     *)
(* again and again, comes to the page that says all is done, and then every  *)
(* record has checked set to a non-null value.                               *)
AllDone == todo = 1 /\ CURRENT_PDF = None /\ last.result = "all_done"

C26_ReviewCompletesAnyDataset == (phase = "serving") ~> (AllDone /\ Reviewed)

\* update_test reaches record j of a document only if no earlier record of
\* the document has its id
Markable(d) ==
    \A ij \in Records(d) :
        Unreviewed(RecordAt(d, ij)) => MatchPos(d[ij[1]].tests, Get(RecordAt(d, ij), "id")) = ij[2]

(* C26, as update_test allows: the review completes for every dataset in     *)
(* which each unreviewed record is the first of its document with its id,    *)
(* as it is when ids are unique within each document.                        *)
C26_ReviewCompletes == (phase = "serving" /\ Markable(PDF_TESTS)) ~> (AllDone /\ Reviewed)

\* the page that says all is done, after requests on a dataset of two
\* documents
C26_Witness ==
    /\ AllDone
    /\ Reviewed
    /\ Len(ALL_PDFS) = 2
    /\ nops = MaxOps
    /\ last.from = None

====
